---- MODULE Spec2Model ----
(***************************************************************************)
(* Model of src/dashboard.py: crear_dashboard_ejecutivo(ruta_csv,          *)
(* archivo_salida_html), a one-shot pipeline                               *)
(*   read_csv -> clean -> aggregate -> charts -> html -> open/write ->     *)
(*   print                                                                 *)
(* wrapped in one try block with two handlers (FileNotFoundError and       *)
(* Exception).                                                            *)
(*                                                                         *)
(* Numbers.  A float is a record [k, v]: k = "num" with v the value in     *)
(* HALVES (v = 3 is 1.5), or k = "inf" / "ninf" / "nan" with v = 0.  A     *)
(* cell of the CSV, as pandas sees it, is such a record or one of          *)
(* k = "text" (text that is no number) and k = "missing" (an empty cell).  *)
(* Strings are ordered by code point, as Python orders them: SortedNames   *)
(* lists every string of the model in that order.                          *)
(***************************************************************************)
EXTENDS Integers, Sequences, FiniteSets, TLC

VARIABLES
    csv,                \* the file at ruta_csv: [exists, parses, header, rows]
    out_before,         \* the file at archivo_salida_html before the run
    out_file,           \* the file at archivo_salida_html now
    pc,                 \* position in crear_dashboard_ejecutivo
    df,                 \* the DataFrame: [columns, rows]
    kpi,                \* total_passengers, total_freight, total_mail, years
    yearly_traffic,     \* line 37
    top_aus_ports,      \* line 44
    top_countries,      \* line 47
    top_routes,         \* line 51
    country_passengers, \* lines 54, 75
    figs,               \* the six figures: the data each was given
    html_content,       \* line 130
    console,            \* what print() has written, in order
    exc,                \* the exception in flight, NoExc when none
    run,                \* "first" or "second" call with the same input
    prev_report         \* the report the first call wrote

vars == << csv, out_before, out_file, pc, df, kpi, yearly_traffic, top_aus_ports,
           top_countries, top_routes, country_passengers, figs, html_content,
           console, exc, run, prev_report >>

---------------------------------------------------------------------------
(* Floats *)

Num(v) == [k |-> "num", v |-> v]
Inf == [k |-> "inf", v |-> 0]
NInf == [k |-> "ninf", v |-> 0]
NaN == [k |-> "nan", v |-> 0]
TextCell == [k |-> "text", v |-> 0]
MissingCell == [k |-> "missing", v |-> 0]

IsFinite(x) == x.k = "num"

\* IEEE addition, as Series.sum() adds
AddNum(a, b) ==
    CASE a.k = "nan" \/ b.k = "nan" -> NaN
      [] a.k = "inf" -> IF b.k = "ninf" THEN NaN ELSE Inf
      [] a.k = "ninf" -> IF b.k = "inf" THEN NaN ELSE NInf
      [] b.k = "inf" -> Inf
      [] b.k = "ninf" -> NInf
      [] OTHER -> Num(a.v + b.v)

\* a < b on floats; every comparison with NaN is false
NumLess(a, b) ==
    CASE a.k = "nan" \/ b.k = "nan" -> FALSE
      [] a.k = "ninf" -> b.k # "ninf"
      [] a.k = "inf" -> FALSE
      [] OTHER -> b.k = "inf" \/ (b.k = "num" /\ a.v < b.v)

\* Strings of the model in code-point order (Python's str ordering)
SortedNames ==
    << "Adelaide", "Argentina", "Auckland", "Austria", "Bahrain", "Bangladesh",
       "Brazil", "Brisbane", "Broome", "Brunei", "Cairns", "Canada", "Canberra",
       "Chile", "China", "Cook Islands", "Darwin", "Denmark", "Egypt", "Fiji",
       "France", "Germany", "Gold Coast", "Greece", "Hobart", "Hong Kong",
       "India", "Indonesia", "Ireland", "Italy", "Japan", "Kenya", "Korea",
       "Los Angeles", "Malaysia", "Mauritius", "Melbourne", "Mexico", "Nauru",
       "Netherlands", "New Caledonia", "New Zealand", "Newcastle",
       "Norfolk Island", "Norway", "Other", "Pakistan", "Papua New Guinea",
       "Perth", "Philippines", "Port Hedland", "Saudi Arabia", "Singapore",
       "Solomon Islands", "South Africa", "Spain", "Sri Lanka", "Sweden",
       "Switzerland", "Sydney", "Tahiti", "Taiwan", "Thailand", "Tonga",
       "Townsville", "UK", "USA", "United Arab Emirates", "Vanuatu", "Vietnam",
       "Western Samoa", "Yugoslavia", "Zambia", "Zimbabwe" >>

RankOf ==
    [s \in { SortedNames[i] : i \in 1..Len(SortedNames) } |->
        CHOOSE i \in 1..Len(SortedNames) : SortedNames[i] = s]

StrRank(s) == RankOf[s]

StrLess(a, b) == StrRank(a) < StrRank(b)

---------------------------------------------------------------------------
(* 1. Carga y preparacion de datos (lines 15-24) *)

\* Header of the CSV as published: the tonnes columns carry a suffix
RawHeader ==
    { "AustralianPort", "ForeignPort", "Country", "Year",
      "Passengers_In", "Freight_In_(tonnes)", "Mail_In_(tonnes)",
      "Passengers_Out", "Freight_Out_(tonnes)", "Mail_Out_(tonnes)",
      "Passengers_Total", "Freight_Total_(tonnes)", "Mail_Total_(tonnes)" }

\* col.replace('_(tonnes)', '').replace('__', '_').strip(), on the names above
CleanName(col) ==
    CASE col = "Freight_In_(tonnes)" -> "Freight_In"
      [] col = "Mail_In_(tonnes)" -> "Mail_In"
      [] col = "Freight_Out_(tonnes)" -> "Freight_Out"
      [] col = "Mail_Out_(tonnes)" -> "Mail_Out"
      [] col = "Freight_Total_(tonnes)" -> "Freight_Total"
      [] col = "Mail_Total_(tonnes)" -> "Mail_Total"
      [] OTHER -> col

cols_numericas ==
    << "Passengers_In", "Freight_In", "Mail_In", "Passengers_Out",
       "Freight_Out", "Mail_Out", "Passengers_Total", "Freight_Total",
       "Mail_Total" >>

NumericCols == { cols_numericas[i] : i \in 1..Len(cols_numericas) }

\* pd.to_numeric(errors='coerce') on one cell: what does not parse becomes NaN;
\* the literals inf / -inf / 1e999 parse, to infinities
ToNumeric(cell) ==
    IF cell.k \in {"text", "missing", "nan"} THEN NaN ELSE cell

\* .fillna(0) on one cell: NaN, and only NaN, becomes 0
FillNa(cell) ==
    IF cell.k = "nan" THEN Num(0) ELSE cell

CleanCell(cell) == FillNa(ToNumeric(cell))

\* the loop of lines 23-24 on one row
CleanRow(r) ==
    [c \in DOMAIN r |-> IF c \in NumericCols THEN CleanCell(r[c]) ELSE r[c]]

CleanRows(rows) == [i \in 1..Len(rows) |-> CleanRow(rows[i])]

\* first column of `wanted`, in order, that the frame lacks ("" when none):
\* df[col] raises KeyError(col)
FirstMissing(columns, wanted) ==
    IF \A i \in 1..Len(wanted) : wanted[i] \in columns
    THEN ""
    ELSE wanted[CHOOSE i \in 1..Len(wanted) :
                    /\ wanted[i] \notin columns
                    /\ \A j \in 1..(i-1) : wanted[j] \in columns]

---------------------------------------------------------------------------
(* 2. Calculo de metricas clave (lines 29-75) *)

\* Series.sum(): skipna, then IEEE addition in row order
RECURSIVE SumFrom(_, _, _)
SumFrom(rows, col, i) ==
    IF i > Len(rows) THEN Num(0)
    ELSE IF rows[i][col].k \in {"nan", "missing"}
         THEN SumFrom(rows, col, i + 1)
         ELSE AddNum(rows[i][col], SumFrom(rows, col, i + 1))

SumCol(rows, col) == SumFrom(rows, col, 1)

YearPresent(r) == r.Year.k \notin {"missing", "nan"}

\* df['AustralianPort'] + ' - ' + df['ForeignPort']: the pair stands for the
\* concatenation, which is injective on the names of the model
RouteOf(r) == << r.AustralianPort, r.ForeignPort >>

RouteLess(a, b) ==
    \/ StrLess(a[1], b[1])
    \/ a[1] = b[1] /\ StrLess(a[2], b[2])

\* a row takes part in groupby(keycol) when its key is not missing
\* (dropna=True); of the key columns only Year is modelled with missing cells
KeyPresent(keycol, r) == keycol = "Year" => YearPresent(r)

\* order of the group keys (sort=True): floats for Year, str for the names,
\* the concatenated str for Route
KeyLess(keycol, a, b) ==
    CASE keycol = "Year" -> NumLess(a, b)
      [] keycol = "Route" -> RouteLess(a, b)
      [] OTHER -> StrLess(a, b)

\* a set of keys as the sequence sorted by KeyLess: the i-th element is the
\* one with i-1 elements below it
SortKeys(S, keycol) ==
    LET below == [x \in S |-> Cardinality({ y \in S : KeyLess(keycol, y, x) })]
    IN  [i \in 1..Cardinality(S) |-> CHOOSE x \in S : below[x] = i - 1]

\* df.groupby(keycol)[col].sum(): one entry per key that is present, keys
\* sorted
GroupBySum(rows, keycol, col) ==
    LET keys == { rows[i][keycol] :
                    i \in { j \in 1..Len(rows) : KeyPresent(keycol, rows[j]) } }
        order == SortKeys(keys, keycol)
        InGroup(k) == LET Same(r) == KeyPresent(keycol, r) /\ r[keycol] = k
                      IN  SelectSeq(rows, Same)
    IN  [i \in 1..Len(order) |->
            [key |-> order[i], val |-> SumCol(InGroup(order[i]), col)]]

\* df['Year'].nunique(), .min(), .max(): missing years are skipped
YearValues(rows) == { rows[i].Year : i \in { j \in 1..Len(rows) : YearPresent(rows[j]) } }

MinYear(rows) ==
    IF YearValues(rows) = {} THEN NaN
    ELSE CHOOSE y \in YearValues(rows) : \A z \in YearValues(rows) : ~NumLess(z, y)

MaxYear(rows) ==
    IF YearValues(rows) = {} THEN NaN
    ELSE CHOOSE y \in YearValues(rows) : \A z \in YearValues(rows) : ~NumLess(y, z)

\* a total taken over the rows the yearly aggregate keeps
TotalPassengersOfYears(rows) ==
    SumCol(SelectSeq(rows, YearPresent), "Passengers_Total")

\* line 29
TotalPassengers(rows) == SumCol(rows, "Passengers_Total")

\* line 30
TotalFreight(rows) == SumCol(rows, "Freight_Total")

\* line 31
TotalMail(rows) == SumCol(rows, "Mail_Total")

\* lines 37-41
YearlyTraffic(rows) ==
    LET p == GroupBySum(rows, "Year", "Passengers_Total")
        f == GroupBySum(rows, "Year", "Freight_Total")
        m == GroupBySum(rows, "Year", "Mail_Total")
    IN  [i \in 1..Len(p) |->
            [Year |-> p[i].key, Passengers_Total |-> p[i].val,
             Freight_Total |-> f[i].val, Mail_Total |-> m[i].val]]

\* nlargest(10), line 44
TopN == 10

SameVal(a, b) == ~NumLess(a, b) /\ ~NumLess(b, a)

DropNa(s) == LET NotNa(e) == e.val.k # "nan" IN SelectSeq(s, NotNa)

\* place of s[i] when s is sorted by value, largest first, equal values in
\* their order in s (the mergesort of nlargest; keep='first')
PosDesc(s, i) ==
    1 + Cardinality({ j \in 1..Len(s) : NumLess(s[i].val, s[j].val) })
      + Cardinality({ j \in 1..(i-1) : SameVal(s[i].val, s[j].val) })

\* place of s[i] when s is sorted by value, smallest first (sort_values on at
\* most 10 entries: numpy's insertion sort, equal values in their order in s)
PosAsc(s, i) ==
    1 + Cardinality({ j \in 1..Len(s) : NumLess(s[j].val, s[i].val) })
      + Cardinality({ j \in 1..(i-1) : SameVal(s[i].val, s[j].val) })

HeadN(s, n) == SubSeq(s, 1, IF Len(s) < n THEN Len(s) ELSE n)

\* the first n entries in key order, unsorted
NLargestUnsorted(s, n) == HeadN(DropNa(s), n)

\* Series.nlargest(n): NaN dropped, the n largest, largest first
NLargest(s, n) ==
    LET d == DropNa(s)
        pos == [i \in 1..Len(d) |-> PosDesc(d, i)]
        sorted == [p \in 1..Len(d) |-> d[CHOOSE i \in 1..Len(d) : pos[i] = p]]
    IN  HeadN(sorted, n)

\* Series.sort_values(ascending=True)
SortValuesAsc(s) ==
    LET pos == [i \in 1..Len(s) |-> PosAsc(s, i)]
    IN  [p \in 1..Len(s) |-> s[CHOOSE i \in 1..Len(s) : pos[i] = p]]

\* .sum().nlargest(10).sort_values(ascending=True), lines 44, 47, 51
Top10(grouped) == SortValuesAsc(NLargest(grouped, TopN))

\* lines 58-74
IsoPairs ==
    << <<"USA", "USA">>, <<"UK", "GBR">>, <<"New Zealand", "NZL">>,
       <<"Singapore", "SGP">>, <<"Japan", "JPN">>, <<"Hong Kong", "HKG">>,
       <<"Germany", "DEU">>, <<"Malaysia", "MYS">>, <<"Indonesia", "IDN">>,
       <<"Canada", "CAN">>, <<"Thailand", "THA">>, <<"Fiji", "FJI">>,
       <<"United Arab Emirates", "ARE">>, <<"Philippines", "PHL">>,
       <<"Italy", "ITA">>, <<"Papua New Guinea", "PNG">>, <<"France", "FRA">>,
       <<"India", "IND">>, <<"Korea", "KOR">>, <<"South Africa", "ZAF">>,
       <<"Netherlands", "NLD">>, <<"Taiwan", "TWN">>, <<"China", "CHN">>,
       <<"Greece", "GRC">>, <<"Switzerland", "CHE">>, <<"Ireland", "IRL">>,
       <<"Austria", "AUT">>, <<"Sweden", "SWE">>, <<"Denmark", "DNK">>,
       <<"Norway", "NOR">>, <<"Spain", "ESP">>, <<"Yugoslavia", "YUG">>,
       <<"Western Samoa", "WSM">>, <<"Cook Islands", "COK">>,
       <<"Vanuatu", "VUT">>, <<"Solomon Islands", "SLB">>,
       <<"New Caledonia", "NCL">>, <<"Tahiti", "PYF">>, <<"Tonga", "TON">>,
       <<"Nauru", "NRU">>, <<"Mauritius", "MUS">>, <<"Zimbabwe", "ZWE">>,
       <<"Bahrain", "BHR">>, <<"Saudi Arabia", "SAU">>, <<"Brunei", "BRN">>,
       <<"Sri Lanka", "LKA">>, <<"Pakistan", "PAK">>, <<"Bangladesh", "BGD">>,
       <<"Egypt", "EGY">>, <<"Kenya", "KEN">>, <<"Zambia", "ZMB">>,
       <<"Argentina", "ARG">>, <<"Brazil", "BRA">>, <<"Chile", "CHL">>,
       <<"Mexico", "MEX">>, <<"Other", "None">> >>

MapKeys == { IsoPairs[i][1] : i \in 1..Len(IsoPairs) }

\* Series.map(country_iso_map) on one value: the entry, None included; NaN
\* for a country the dict has no entry for
country_iso_map(country) ==
    IF country \in MapKeys
    THEN IsoPairs[CHOOSE i \in 1..Len(IsoPairs) : IsoPairs[i][1] = country][2]
    ELSE "NaN"

IsNullIso(iso) == iso \in {"None", "NaN"}

\* lines 54 and 75
CountryPassengers(rows) ==
    LET g == GroupBySum(rows, "Country", "Passengers_Total")
    IN  [i \in 1..Len(g) |->
            [Country |-> g[i].key, Passengers_Total |-> g[i].val,
             iso_alpha |-> country_iso_map(g[i].key)]]

\* line 50
WithRoute(rows) ==
    [i \in 1..Len(rows) |->
        [c \in DOMAIN rows[i] \cup {"Route"} |->
            IF c = "Route" THEN RouteOf(rows[i]) ELSE rows[i][c]]]

---------------------------------------------------------------------------
(* 3. Graficas (lines 83-127): each figure is the data it is given *)

AreaData(yearly, col) ==
    [i \in 1..Len(yearly) |-> [x |-> yearly[i].Year, y |-> yearly[i][col]]]

BarData(top) ==
    [i \in 1..Len(top) |-> [x |-> top[i].val, y |-> top[i].key]]

\* a choropleth fed only the rows that carry a code
ChoroplethDataDropNull(cp) ==
    LET Coded(r) == r.iso_alpha \notin {"None", "NaN"}
        kept == SelectSeq(cp, Coded)
    IN  [i \in 1..Len(kept) |->
            [locations |-> kept[i].iso_alpha, color |-> kept[i].Passengers_Total,
             hover_name |-> kept[i].Country]]

\* px.choropleth(country_passengers, locations="iso_alpha", ...): every row
\* of the frame goes into the trace, the script filters none
ChoroplethData(cp) ==
    [i \in 1..Len(cp) |->
        [locations |-> cp[i].iso_alpha, color |-> cp[i].Passengers_Total,
         hover_name |-> cp[i].Country]]

---------------------------------------------------------------------------
(* 4. Ensamblaje del HTML (lines 130-218) *)

\* f"{x:,.0f}": the float rounded to no decimals, ties to even; `units` is
\* the whole number printed (the digits, grouped by thousands)
RoundHalfEven(v) ==
    LET q == v \div 2
    IN  IF v % 2 = 0 THEN q
        ELSE IF q % 2 = 0 THEN q ELSE q + 1

Format0f(x) ==
    IF x.k = "num" THEN [text |-> "digits", units |-> RoundHalfEven(x.v)]
    ELSE [text |-> x.k, units |-> 0]

\* uuid4() of fig.to_html(): div_id is not passed, so plotly draws a fresh
\* identifier for each fragment of each call
Uuids == {"uuid-a", "uuid-b"}

ToHtml(fig, uuid, i) == [div_id |-> << uuid, i >>, data |-> fig]

\* the document, in template order: header years, three KPIs, six fragments
HtmlContent(k, f, uuid) ==
    [start_year |-> k.start_year, end_year |-> k.end_year,
     kpis |-> << Format0f(k.total_passengers), Format0f(k.total_freight),
                 Format0f(k.total_mail) >>,
     frags |-> << ToHtml(f.passengers_trend, uuid, 1),
                  ToHtml(f.freight_trend, uuid, 2),
                  ToHtml(f.map, uuid, 3),
                  ToHtml(f.top_ports, uuid, 4),
                  ToHtml(f.top_countries, uuid, 5),
                  ToHtml(f.top_routes, uuid, 6) >>]

NoDoc == [start_year |-> NaN, end_year |-> NaN, kpis |-> << >>, frags |-> << >>]

---------------------------------------------------------------------------
(* Files, exceptions, console *)

NoExc == [type |-> "none", msg |-> ""]

\* the output path holds nothing
Absent == [exists |-> FALSE, kind |-> "none", doc |-> NoDoc, part |-> "none",
           is_open |-> FALSE]

\* the output path holds a file from before the run
Previous == [exists |-> TRUE, kind |-> "previous", doc |-> NoDoc, part |-> "all",
             is_open |-> FALSE]

NoKpi == [total_passengers |-> NaN, total_freight |-> NaN, total_mail |-> NaN,
          num_years |-> 0, start_year |-> NaN, end_year |-> NaN]

NoDf == [columns |-> {}, rows |-> << >>]

NoFigs == [passengers_trend |-> << >>, freight_trend |-> << >>,
           top_ports |-> << >>, top_countries |-> << >>, top_routes |-> << >>,
           map |-> << >>]

\* locals of the call before it runs
Fresh ==
    /\ pc = "read_csv"
    /\ df = NoDf
    /\ kpi = NoKpi
    /\ yearly_traffic = << >>
    /\ top_aus_ports = << >>
    /\ top_countries = << >>
    /\ top_routes = << >>
    /\ country_passengers = << >>
    /\ figs = NoFigs
    /\ html_content = NoDoc
    /\ console = << >>
    /\ exc = NoExc

Raise(type, msg) ==
    /\ exc' = [type |-> type, msg |-> msg]
    /\ pc' = "except"

---------------------------------------------------------------------------
(* The steps of crear_dashboard_ejecutivo *)

\* a read_csv that reports a missing file as a plain OSError
ReadCsvErrorAsOSError(file) ==
    IF ~file.exists THEN [type |-> "OSError", msg |-> "ruta_csv"]
    ELSE IF ~file.parses
    THEN [type |-> "ParserError", msg |-> "Error tokenizing data"]
    ELSE NoExc

\* line 15: what pd.read_csv(ruta_csv) raises, NoExc when it returns a frame
ReadCsvError(file) ==
    IF ~file.exists THEN [type |-> "FileNotFoundError", msg |-> "ruta_csv"]
    ELSE IF ~file.parses
    THEN [type |-> "ParserError", msg |-> "Error tokenizing data"]
    ELSE NoExc

\* lines 15-18: pd.read_csv(ruta_csv), then the column names are cleaned
ReadCsv ==
    /\ pc = "read_csv"
    /\ IF ReadCsvError(csv) # NoExc
       THEN /\ Raise(ReadCsvError(csv).type, ReadCsvError(csv).msg)
            /\ UNCHANGED df
       ELSE /\ df' = [columns |-> { CleanName(h) : h \in csv.header },
                      rows |-> [i \in 1..Len(csv.rows) |->
                                  [c \in { CleanName(h) : h \in csv.header } |->
                                      csv.rows[i][CHOOSE h \in csv.header :
                                                      CleanName(h) = c]]]]
            /\ pc' = "clean"
            /\ UNCHANGED exc
    /\ UNCHANGED << csv, out_before, out_file, kpi, yearly_traffic,
                    top_aus_ports, top_countries, top_routes,
                    country_passengers, figs, html_content, console, run,
                    prev_report >>

\* lines 21-24
Clean ==
    /\ pc = "clean"
    /\ IF FirstMissing(df.columns, cols_numericas) # ""
       THEN /\ Raise("KeyError", FirstMissing(df.columns, cols_numericas))
            /\ UNCHANGED df
       ELSE /\ df' = [df EXCEPT !.rows = CleanRows(df.rows)]
            /\ pc' = "metrics"
            /\ UNCHANGED exc
    /\ UNCHANGED << csv, out_before, out_file, kpi, yearly_traffic,
                    top_aus_ports, top_countries, top_routes,
                    country_passengers, figs, html_content, console, run,
                    prev_report >>

\* lines 29-75
Metrics ==
    /\ pc = "metrics"
    /\ LET missing == FirstMissing(df.columns,
                          << "Year", "AustralianPort", "Country", "ForeignPort" >>)
           routed == WithRoute(df.rows)
       IN  IF missing # ""
           THEN /\ Raise("KeyError", missing)
                /\ UNCHANGED << df, kpi, yearly_traffic, top_aus_ports,
                                top_countries, top_routes, country_passengers >>
           ELSE /\ kpi' = [total_passengers |-> TotalPassengers(df.rows),
                           total_freight |-> TotalFreight(df.rows),
                           total_mail |-> TotalMail(df.rows),
                           num_years |-> Cardinality(YearValues(df.rows)),
                           start_year |-> MinYear(df.rows),
                           end_year |-> MaxYear(df.rows)]
                /\ yearly_traffic' = YearlyTraffic(df.rows)
                /\ top_aus_ports' =
                       Top10(GroupBySum(df.rows, "AustralianPort", "Passengers_Total"))
                /\ top_countries' =
                       Top10(GroupBySum(df.rows, "Country", "Passengers_Total"))
                /\ df' = [columns |-> df.columns \cup {"Route"}, rows |-> routed]
                /\ top_routes' =
                       Top10(GroupBySum(routed, "Route", "Passengers_Total"))
                /\ country_passengers' = CountryPassengers(routed)
                /\ pc' = "charts"
                /\ UNCHANGED exc
    /\ UNCHANGED << csv, out_before, out_file, figs, html_content, console,
                    run, prev_report >>

\* lines 83-127
Charts ==
    /\ pc = "charts"
    /\ figs' = [passengers_trend |-> AreaData(yearly_traffic, "Passengers_Total"),
                freight_trend |-> AreaData(yearly_traffic, "Freight_Total"),
                top_ports |-> BarData(top_aus_ports),
                top_countries |-> BarData(top_countries),
                top_routes |-> BarData(top_routes),
                map |-> ChoroplethData(country_passengers)]
    /\ pc' = "html"
    /\ UNCHANGED << csv, out_before, out_file, df, kpi, yearly_traffic,
                    top_aus_ports, top_countries, top_routes,
                    country_passengers, html_content, console, exc, run,
                    prev_report >>

\* lines 130-218
Html ==
    /\ pc = "html"
    /\ \E uuid \in Uuids : html_content' = HtmlContent(kpi, figs, uuid)
    /\ pc' = "open"
    /\ UNCHANGED << csv, out_before, out_file, df, kpi, yearly_traffic,
                    top_aus_ports, top_countries, top_routes,
                    country_passengers, figs, console, exc, run, prev_report >>

\* line 221: open(archivo_salida_html, 'w', encoding='utf-8') creates the
\* file or truncates it, or raises: FileNotFoundError when the directory of
\* the path does not exist, another OSError (PermissionError,
\* IsADirectoryError) otherwise
OpenOut ==
    /\ pc = "open"
    /\ \/ /\ out_file' = [exists |-> TRUE, kind |-> "report", doc |-> NoDoc,
                          part |-> "empty", is_open |-> TRUE]
          /\ pc' = "write"
          /\ UNCHANGED exc
       \/ /\ ~out_file.exists
          /\ Raise("FileNotFoundError", "archivo_salida_html")
          /\ UNCHANGED out_file
       \/ /\ Raise("PermissionError", "archivo_salida_html")
          /\ UNCHANGED out_file
    /\ UNCHANGED << csv, out_before, df, kpi, yearly_traffic, top_aus_ports,
                    top_countries, top_routes, country_passengers, figs,
                    html_content, console, run, prev_report >>

\* line 222: f.write(html_content) puts the whole text in the file, or the
\* device fails (disk full, I/O error) with none or part of it written
WriteHtml ==
    /\ pc = "write"
    /\ \/ /\ out_file' = [out_file EXCEPT !.doc = html_content, !.part = "all"]
          /\ UNCHANGED exc
       \/ /\ \E part \in {"empty", "partial"} :
                out_file' = [out_file EXCEPT !.doc = html_content, !.part = part]
          /\ exc' = [type |-> "OSError", msg |-> "No space left on device"]
    /\ pc' = "with_exit"
    /\ UNCHANGED << csv, out_before, df, kpi, yearly_traffic, top_aus_ports,
                    top_countries, top_routes, country_passengers, figs,
                    html_content, console, run, prev_report >>

\* a with block that swallows the exception of its body
WithExitSwallows ==
    /\ pc = "with_exit"
    /\ out_file' = [out_file EXCEPT !.is_open = FALSE]
    /\ pc' = "print_ok"
    /\ UNCHANGED << csv, out_before, df, kpi, yearly_traffic, top_aus_ports,
                    top_countries, top_routes, country_passengers, figs,
                    html_content, console, exc, run, prev_report >>

\* end of the with block of line 221: the file is closed on every path
WithExit ==
    /\ pc = "with_exit"
    /\ out_file' = [out_file EXCEPT !.is_open = FALSE]
    /\ pc' = IF exc = NoExc THEN "print_ok" ELSE "except"
    /\ UNCHANGED << csv, out_before, df, kpi, yearly_traffic, top_aus_ports,
                    top_countries, top_routes, country_passengers, figs,
                    html_content, console, exc, run, prev_report >>

\* line 224
PrintSuccess ==
    /\ pc = "print_ok"
    /\ console' = Append(console, [kind |-> "success", arg |-> "archivo_salida_html"])
    /\ pc' = "done"
    /\ UNCHANGED << csv, out_before, out_file, df, kpi, yearly_traffic,
                    top_aus_ports, top_countries, top_routes,
                    country_passengers, figs, html_content, exc, run,
                    prev_report >>

\* lines 226-227: the handler names ruta_csv whatever raised
ExceptFileNotFound ==
    /\ pc = "except"
    /\ exc.type = "FileNotFoundError"
    /\ console' = Append(console, [kind |-> "file_not_found", arg |-> "ruta_csv"])
    /\ pc' = "done"
    /\ UNCHANGED << csv, out_before, out_file, df, kpi, yearly_traffic,
                    top_aus_ports, top_countries, top_routes,
                    country_passengers, figs, html_content, exc, run,
                    prev_report >>

\* lines 228-229
ExceptGeneric ==
    /\ pc = "except"
    /\ exc.type \notin {"none", "FileNotFoundError"}
    /\ console' = Append(console, [kind |-> "unexpected", arg |-> exc.msg])
    /\ pc' = "done"
    /\ UNCHANGED << csv, out_before, out_file, df, kpi, yearly_traffic,
                    top_aus_ports, top_countries, top_routes,
                    country_passengers, figs, html_content, exc, run,
                    prev_report >>

\* line 236 run again after a successful run, with the same input file
Rerun ==
    /\ pc = "done"
    /\ run = "first"
    /\ exc = NoExc
    /\ run' = "second"
    /\ prev_report' = out_file
    /\ out_before' = out_file
    /\ pc' = "read_csv"
    /\ df' = NoDf
    /\ kpi' = NoKpi
    /\ yearly_traffic' = << >>
    /\ top_aus_ports' = << >>
    /\ top_countries' = << >>
    /\ top_routes' = << >>
    /\ country_passengers' = << >>
    /\ figs' = NoFigs
    /\ html_content' = NoDoc
    /\ console' = << >>
    /\ UNCHANGED << csv, out_file, exc >>

---------------------------------------------------------------------------
(* Inputs *)

\* longest table of Spec and SpecData
MaxRows == 2

\* longest table of SpecTop: more groups than nlargest keeps
MaxTopRows == 12

Whole(n) == Num(2 * n)

MkRow(port, foreign, country, year, p, f, m, io) ==
    [AustralianPort |-> port, ForeignPort |-> foreign, Country |-> country,
     Year |-> year, Passengers_In |-> io, Freight_In |-> io, Mail_In |-> io,
     Passengers_Out |-> io, Freight_Out |-> io, Mail_Out |-> io,
     Passengers_Total |-> p, Freight_Total |-> f, Mail_Total |-> m]

Tables(rowset, n) == UNION { [1..k -> rowset] : k \in 0..n }

CsvOf(header, rows) ==
    [exists |-> TRUE, parses |-> TRUE, header |-> header,
     rows |-> [i \in 1..Len(rows) |-> [h \in header |-> rows[i][CleanName(h)]]]]

MissingCsv == [exists |-> FALSE, parses |-> FALSE, header |-> {}, rows |-> << >>]

GarbledCsv == [exists |-> TRUE, parses |-> FALSE, header |-> {}, rows |-> << >>]

Headers ==
    { RawHeader, RawHeader \ {"Year"}, RawHeader \ {"Mail_Total_(tonnes)"} }

BasicRows ==
    { MkRow("Sydney", "Auckland", "New Zealand", Whole(1985),
            Whole(3), Num(3), Num(1), Whole(1)),
      MkRow("Perth", "Singapore", "Singapore", Whole(1986),
            Whole(1), Num(2), TextCell, MissingCell),
      MkRow("Sydney", "Los Angeles", "Other", MissingCell,
            TextCell, Num(1), Num(2), Whole(2)) }

Destinations ==
    { [port |-> "Sydney", foreign |-> "Auckland", country |-> "New Zealand"],
      [port |-> "Perth", foreign |-> "Singapore", country |-> "Other"],
      [port |-> "Sydney", foreign |-> "Singapore", country |-> "Vietnam"] }

Years == { Whole(1985), Whole(1986), MissingCell }

Cargo ==
    { [p |-> Whole(2), f |-> Num(1), m |-> Num(3), io |-> Whole(1)],
      [p |-> TextCell, f |-> Num(2), m |-> MissingCell, io |-> TextCell],
      [p |-> Inf, f |-> MissingCell, m |-> Num(1), io |-> MissingCell],
      [p |-> NInf, f |-> Num(3), m |-> TextCell, io |-> Inf] }

RichRows ==
    { MkRow(d.port, d.foreign, d.country, y, c.p, c.f, c.m, c.io) :
        d \in Destinations, y \in Years, c \in Cargo }

TopPorts ==
    << "Adelaide", "Brisbane", "Broome", "Cairns", "Canberra", "Darwin",
       "Gold Coast", "Hobart", "Melbourne", "Newcastle", "Norfolk Island",
       "Perth", "Port Hedland", "Sydney", "Townsville" >>

TopCountries ==
    << "Zimbabwe", "Yugoslavia", "Vanuatu", "USA", "UK", "Tonga", "Thailand",
       "Taiwan", "Tahiti", "Sweden", "Spain", "Singapore", "Pakistan",
       "Other", "Norway" >>

\* table of n rows, one more port than nlargest keeps: row i flies from port
\* ((i-1) mod (TopN+1))+1 to the country of the same number with val[i]
\* passengers, so that rows past the (TopN+1)-th share the first ports
TopTable(n, val) ==
    [i \in 1..n |->
        MkRow(TopPorts[((i - 1) % (TopN + 1)) + 1],
              IF i % 2 = 0 THEN "Auckland" ELSE "Singapore",
              TopCountries[((i - 1) % (TopN + 1)) + 1], Whole(1985),
              val[i], Num(1), Num(1), Whole(1))]

TopTables(maxn) ==
    UNION { { TopTable(n, val) : val \in [1..n -> {Whole(1), Whole(2)}] } :
            n \in 0..maxn }

---------------------------------------------------------------------------
(* Specifications *)

InitRun ==
    /\ Fresh
    /\ run = "first"
    /\ prev_report = Absent
    /\ out_file = out_before

\* the whole call, every way its files can fail
Init ==
    /\ csv \in {MissingCsv, GarbledCsv}
              \cup { CsvOf(h, rows) : h \in Headers, rows \in Tables(BasicRows, MaxRows) }
    /\ out_before \in {Absent, Previous}
    /\ InitRun

Next ==
    \/ ReadCsv
    \/ Clean
    \/ Metrics
    \/ Charts
    \/ Html
    \/ OpenOut
    \/ WriteHtml
    \/ WithExit
    \/ PrintSuccess
    \/ ExceptFileNotFound
    \/ ExceptGeneric
    \/ Rerun

Spec == Init /\ [][Next]_vars

\* loader, aggregator, chart builder and assembler on tables of every kind
\* of cell, year and country
InitData ==
    /\ csv \in { CsvOf(RawHeader, rows) : rows \in Tables(RichRows, MaxRows) }
    /\ out_before = Absent
    /\ InitRun

NextData == ReadCsv \/ Clean \/ Metrics \/ Charts \/ Html

SpecData == InitData /\ [][NextData]_vars

\* loader and aggregator on tables of up to MaxTopRows rows, and on the
\* short tables of every kind of cell
InitTop ==
    /\ csv \in { CsvOf(RawHeader, rows) :
                  rows \in TopTables(MaxTopRows) \cup Tables(RichRows, MaxRows) }
    /\ out_before = Absent
    /\ InitRun

NextTop == ReadCsv \/ Clean \/ Metrics

SpecTop == InitTop /\ [][NextTop]_vars

---------------------------------------------------------------------------
(* Claims *)

Done == pc = "done"
Failed == exc # NoExc
Said(kind) == \E i \in 1..Len(console) : console[i].kind = kind
CompleteReport ==
    /\ out_file.exists
    /\ out_file.kind = "report"
    /\ out_file.part = "all"
    /\ out_file.doc = html_content

\* C1: after a run that failed, the file at the output path is what it was
\* before the run, or it is the complete report; never an empty or cut one.
C1_NoPartialOutput ==
    (Done /\ Failed) => (out_file = out_before \/ CompleteReport)

\* C2: the file-not-found diagnostic is printed exactly when the input file
\* is missing; every other failure prints the generic diagnostic with the
\* message of the exception.
C2_DiagnosticByCause ==
    Done =>
        /\ Said("file_not_found") <=> ~csv.exists
        /\ (Failed /\ csv.exists) =>
               console = << [kind |-> "unexpected", arg |-> exc.msg] >>

\* C3: with the input file missing the run prints the file-not-found
\* diagnostic, never the success message, and never opens or creates the
\* output file.
C3_MissingInput ==
    ~csv.exists =>
        /\ out_file = out_before
        /\ ~out_file.is_open
        /\ pc \in {"read_csv", "except", "done"}
        /\ ~Said("success")
        /\ Done => console = << [kind |-> "file_not_found", arg |-> "ruta_csv"] >>

C3_Witness == ~csv.exists /\ Done /\ Said("file_not_found")

Steps == {"read_csv", "clean", "metrics", "charts", "html", "open", "write",
          "with_exit", "print_ok", "except"}

\* C10: a finished run has printed exactly one message; the success message
\* only with the complete report written and the file closed, an error
\* diagnostic only when the run failed; nothing is printed before the end,
\* and a run that has not finished is at a step that can be taken (a handler
\* is reached only with an exception to handle).
C10_OneMessage ==
    /\ Len(console) <= 1
    /\ ~Done => (console = << >> /\ pc \in Steps /\ (pc = "except" => Failed))
    /\ Done =>
        /\ Len(console) = 1
        /\ Said("success") => (~Failed /\ CompleteReport /\ ~out_file.is_open)
        /\ ~Said("success") => Failed

C10_Witness == Done /\ Said("success") /\ CompleteReport

C10_WitnessError == Done /\ Said("unexpected") /\ out_file.part = "partial"

\* C8: a second successful run on the same input writes the same text as the
\* first, element identifiers of the chart fragments included.
C8_RerunIdentical ==
    (run = "second" /\ Done /\ ~Failed) => out_file.doc = prev_report.doc

---------------------------------------------------------------------------
(* Claims on the data, under SpecData *)

Aggregated == pc \in {"charts", "html", "open"}
Metrics3 == {"Passengers_Total", "Freight_Total", "Mail_Total"}

\* C4: for each of the three metrics the sum over all rows of the cleaned
\* table equals the sum over the rows of yearly_traffic, rows with a missing
\* Year included.
C4_YearlyConservation ==
    Aggregated =>
        \A m \in Metrics3 : SumCol(df.rows, m) = SumCol(yearly_traffic, m)

\* C5: after cleaning no row is lost and every cell of the nine numeric
\* columns is a finite number: 0 for a cell that is missing or does not
\* parse, its own value for a cell that parses.
C5_CleanedFinite ==
    pc \in {"metrics", "charts", "html", "open"} =>
        /\ Len(df.rows) = Len(csv.rows)
        /\ \A i \in 1..Len(df.rows) : \A c \in NumericCols :
              LET raw == csv.rows[i][CHOOSE h \in csv.header : CleanName(h) = c]
              IN  /\ IsFinite(df.rows[i][c])
                  /\ raw.k \in {"text", "missing"} => df.rows[i][c] = Num(0)
                  /\ raw.k = "num" => df.rows[i][c] = raw

Plotted == pc \in {"html", "open"}
TableCountries == { csv.rows[i].Country : i \in 1..Len(csv.rows) }
HasIsoCode(country) ==
    \E i \in 1..Len(IsoPairs) : IsoPairs[i][1] = country /\ IsoPairs[i][2] # "None"

RECURSIVE AllRowsSum(_, _)
AllRowsSum(col, n) ==
    IF n = 0 THEN Num(0) ELSE AddNum(AllRowsSum(col, n - 1), df.rows[n][col])

KpiCols == << "Passengers_Total", "Freight_Total", "Mail_Total" >>

\* C9 as claimed: each reported KPI equals exactly the sum of its column
\* over all rows of the cleaned table.
C9_KpiExact ==
    pc = "open" =>
        \A j \in 1..3 :
            LET s == AllRowsSum(KpiCols[j], Len(df.rows))
            IN  s.k = "num" =>
                    /\ html_content.kpis[j].text = "digits"
                    /\ 2 * html_content.kpis[j].units = s.v

\* C9 amended: each reported KPI is the sum of its column over all rows of
\* the cleaned table (coerced and unmapped rows included) rounded to a whole
\* number, a half going to the even neighbour; an infinite or undefined sum
\* is reported as such.
C9_KpiRounded ==
    pc = "open" =>
        /\ Len(df.rows) = Len(csv.rows)
        /\ \A j \in 1..3 :
            LET s == AllRowsSum(KpiCols[j], Len(df.rows))
                u == html_content.kpis[j].units
            IN  IF s.k = "num"
                THEN /\ html_content.kpis[j].text = "digits"
                     /\ 2 * u - s.v \in {-1, 0, 1}
                     /\ 2 * u # s.v => u % 2 = 0
                ELSE html_content.kpis[j].text = s.k

C9_Witness ==
    /\ pc = "open"
    /\ kpi.total_freight.k = "num" /\ kpi.total_freight.v % 2 = 1
    /\ kpi.total_passengers.k = "num" /\ kpi.total_passengers.v > 0
    /\ \E i \in 1..Len(csv.rows) :
          csv.rows[i].Country = "Other" /\ csv.rows[i].Passengers_Total.k = "num"
    /\ \E i \in 1..Len(csv.rows) : csv.rows[i].Passengers_Total.k = "text"

---------------------------------------------------------------------------
(* Claim on the rankings, under SpecTop *)

GroupKeysOf(keycol) == { df.rows[i][keycol] : i \in 1..Len(df.rows) }

GroupTotal(keycol, k) ==
    LET Same(r) == r[keycol] = k
    IN  SumCol(SelectSeq(df.rows, Same), "Passengers_Total")

RankingOk(top, keycol) ==
    /\ Len(top) <= TopN
    /\ \A i, j \in 1..Len(top) : i < j =>
          top[i].key # top[j].key /\ ~NumLess(top[j].val, top[i].val)
    /\ \A i \in 1..Len(top) :
          /\ top[i].key \in GroupKeysOf(keycol)
          /\ top[i].val = GroupTotal(keycol, top[i].key)
    /\ \A k \in GroupKeysOf(keycol) \ { top[i].key : i \in 1..Len(top) } :
          \A i \in 1..Len(top) : ~NumLess(top[i].val, GroupTotal(keycol, k))

\* C6: each of the three rankings holds at most 10 groups of the table with
\* their summed Passengers_Total, in ascending order of that sum, and no
\* group left out has a sum strictly greater than a group kept.
C6_TopRankings ==
    pc = "charts" =>
        /\ RankingOk(top_aus_ports, "AustralianPort")
        /\ RankingOk(top_countries, "Country")
        /\ RankingOk(top_routes, "Route")

\* more port groups than the ranking keeps, one left out that ties with one
\* kept, and a port with two rows
C6_Witness ==
    /\ pc = "charts"
    /\ Cardinality(GroupKeysOf("AustralianPort")) > TopN
    /\ Len(top_aus_ports) = TopN
    /\ Len(df.rows) > Cardinality(GroupKeysOf("AustralianPort"))
    /\ \E k \in GroupKeysOf("AustralianPort") \ { top_aus_ports[i].key : i \in 1..TopN } :
          GroupTotal("AustralianPort", k) = top_aus_ports[1].val
    /\ top_aus_ports[1].val # top_aus_ports[TopN].val

====
